---- MODULE Spec2Model ----
(***************************************************************************)
(* A model of anthropic_proxy.server.ProxyServer: the handler that         *)
(* forwards an exchange, the trace printers, and the structural            *)
(* deduplication (compute_hash, create_preview, cache_and_replace,         *)
(* filter_tools).                                                          *)
(*                                                                         *)
(* JSON-like values are tagged tuples:                                     *)
(*   <<"null">>, <<"bool", b>>, <<"num", n>>, <<"str", s>>,                *)
(*   <<"list", <<v1, ..., vn>> >>,                                         *)
(*   <<"dict", << <<k1, v1>>, ..., <<kn, vn>> >> >>   (insertion order).   *)
(* Python strings are TLA+ strings; json.dumps, str() and the f-strings    *)
(* are computed character by character.                                    *)
(***************************************************************************)
EXTENDS Integers, Sequences, FiniteSets, TLC

VARIABLES
    cache_json,          \* self.cache_json
    show_tools,          \* self.show_tools
    show_event_logging,  \* self.show_event_logging
    request_count,       \* self.request_count
    json_cache,          \* self.json_cache: hash -> preview
    ex,                  \* the in-flight calls of handle_request
    console,             \* what has been printed, one entry per print block
    passes,              \* history: one record per call of cache_and_replace from a printer
    stdout,              \* sys.stdout: the printed lines, each with the block it belongs to
    streams              \* history: one record per call of parse_streaming_response

vars == <<cache_json, show_tools, show_event_logging, request_count,
          json_cache, ex, console, passes, stdout, streams>>

----------------------------------------------------------------------------
(* JSON-like values *)

Null == <<"null">>
JBool(b) == <<"bool", b>>
JNum(n) == <<"num", n>>
JStr(s) == <<"str", s>>
JList(items) == <<"list", items>>
JDict(pairs) == <<"dict", pairs>>

Kind(v) == v[1]
Payload(v) == v[2]
IsDict(v) == Kind(v) = "dict"
IsList(v) == Kind(v) = "list"
IsStr(v) == Kind(v) = "str"
IsComposite(v) == IsDict(v) \/ IsList(v)

KeysOf(pairs) == [i \in 1..Len(pairs) |-> pairs[i][1]]
HasKey(pairs, k) == \E i \in 1..Len(pairs) : pairs[i][1] = k
Get(pairs, k) == pairs[CHOOSE i \in 1..Len(pairs) : pairs[i][1] = k][2]

\* One item of a mapping, and a few small values.
KV(k, v) == <<k, v>>
One == JNum(1)
Two == JNum(2)
ListOne == JList(<<One>>)
ListOneTwo == JList(<<One, Two>>)

----------------------------------------------------------------------------
(* Strings *)

Char(s, i) == SubSeq(s, i, i)

\* The printable ASCII characters in code point order: 32 (space) to 95, and
\* 97 to 126 (a TLA+ string cannot hold the character 96).
AsciiLow == " !\"#$%&'()*+,-./0123456789:;<=>?@ABCDEFGHIJKLMNOPQRSTUVWXYZ[\\]^_"
AsciiHigh == "abcdefghijklmnopqrstuvwxyz{|}~"

IndexIn(table, c) == CHOOSE i \in 1..Len(table) : SubSeq(table, i, i) = c

\* ord(c)
Ord(c) ==
    IF c = "\n" THEN 10
    ELSE IF \E i \in 1..Len(AsciiLow) : SubSeq(AsciiLow, i, i) = c
         THEN 31 + IndexIn(AsciiLow, c)
         ELSE 96 + IndexIn(AsciiHigh, c)

Contains(s, c) == \E i \in 1..Len(s) : Char(s, i) = c

IsPrefix(p, s) == Len(p) <= Len(s) /\ SubSeq(s, 1, Len(p)) = p

\* Python's  a < b  on str: lexicographic by code point.
\* a and b differ at place i and agree before it.
FirstDiff(a, b, i) == Char(a, i) # Char(b, i) /\ SubSeq(a, 1, i - 1) = SubSeq(b, 1, i - 1)

Shorter(a, b) == IF Len(a) <= Len(b) THEN Len(a) ELSE Len(b)

OrdLessAt(a, b, i) == Ord(Char(a, i)) < Ord(Char(b, i))

StrLess(a, b) ==
    IF \E i \in 1..Shorter(a, b) : FirstDiff(a, b, i)
    THEN OrdLessAt(a, b, CHOOSE i \in 1..Shorter(a, b) : FirstDiff(a, b, i))
    ELSE Len(a) < Len(b)

\* sep.join(parts)
RECURSIVE Join(_, _)
Join(sep, parts) ==
    IF Len(parts) = 0 THEN ""
    ELSE IF Len(parts) = 1 THEN parts[1]
    ELSE parts[1] \o sep \o Join(sep, Tail(parts))

\* s.find(c), counted from 1 (0 when c does not occur in s)
Find(s, c) ==
    IF \E i \in 1..Len(s) : Char(s, i) = c
    THEN CHOOSE i \in 1..Len(s) : Char(s, i) = c /\ \A j \in 1..(i - 1) : Char(s, j) # c
    ELSE 0

\* s.split(c): the piece before the first c at place i, then the pieces of the rest.
RECURSIVE Split(_, _)
SplitAt(s, c, i) ==
    IF i = 0 THEN <<s>>
    ELSE <<SubSeq(s, 1, i - 1)>> \o Split(SubSeq(s, i + 1, Len(s)), c)

Split(s, c) == SplitAt(s, c, Find(s, c))

\* s[:n]
Take(s, n) == IF Len(s) <= n THEN s ELSE SubSeq(s, 1, n)

\* The escaping json.dumps applies inside a string literal.
JsonEscapeChar(c) ==
    IF c = "\"" THEN "\\\""
    ELSE IF c = "\\" THEN "\\\\"
    ELSE IF c = "\n" THEN "\\n"
    ELSE c

\* The two halves of s, each escaped.
RECURSIVE JsonEscape(_)
JsonEscape(s) ==
    IF Len(s) = 0 THEN ""
    ELSE IF Len(s) = 1 THEN JsonEscapeChar(s)
    ELSE JsonEscape(SubSeq(s, 1, Len(s) \div 2))
         \o JsonEscape(SubSeq(s, (Len(s) \div 2) + 1, Len(s)))

\* The escaping repr() applies inside a str literal quoted with q.
ReprEscapeChar(c, q) ==
    IF c = q THEN "\\" \o q
    ELSE IF c = "\\" THEN "\\\\"
    ELSE IF c = "\n" THEN "\\n"
    ELSE c

\* The two halves of s, each escaped.
RECURSIVE ReprEscape(_, _)
ReprEscape(s, q) ==
    IF Len(s) = 0 THEN ""
    ELSE IF Len(s) = 1 THEN ReprEscapeChar(s, q)
    ELSE ReprEscape(SubSeq(s, 1, Len(s) \div 2), q)
         \o ReprEscape(SubSeq(s, (Len(s) \div 2) + 1, Len(s)), q)

\* repr(s) of a str: single quotes, unless s holds a ' and no ".
ReprStr(s) ==
    LET q == IF Contains(s, "'") /\ ~Contains(s, "\"") THEN "\"" ELSE "'"
    IN q \o ReprEscape(s, q) \o q

\* repr(v) of a parsed JSON value (what str() and an f-string give for a
\* value that is not a str).
RECURSIVE PyRepr(_)
PyRepr(v) ==
    CASE Kind(v) = "null" -> "None"
      [] Kind(v) = "bool" -> IF Payload(v) THEN "True" ELSE "False"
      [] Kind(v) = "num"  -> ToString(Payload(v))
      [] Kind(v) = "str"  -> ReprStr(Payload(v))
      [] Kind(v) = "list" ->
            "[" \o Join(", ", [i \in 1..Len(Payload(v)) |-> PyRepr(Payload(v)[i])]) \o "]"
      [] Kind(v) = "dict" ->
            "{" \o Join(", ", [i \in 1..Len(Payload(v)) |->
                      ReprStr(Payload(v)[i][1]) \o ": " \o PyRepr(Payload(v)[i][2])]) \o "}"

\* str(v)
PyStr(v) == IF IsStr(v) THEN Payload(v) ELSE PyRepr(v)

----------------------------------------------------------------------------
(* compute_hash *)

\* Insert one (key, value) pair into a list of pairs sorted by key.
RECURSIVE InsertSorted(_, _)
InsertSorted(p, sorted) ==
    IF Len(sorted) = 0 THEN <<p>>
    ELSE IF StrLess(p[1], sorted[1][1]) THEN <<p>> \o sorted
    ELSE <<sorted[1]>> \o InsertSorted(p, Tail(sorted))

RECURSIVE SortPairs(_)
SortPairs(pairs) ==
    IF Len(pairs) = 0 THEN <<>>
    ELSE InsertSorted(pairs[1], SortPairs(Tail(pairs)))

\* Mutant: json.dumps without sort_keys visits the items in insertion order.
DumpItems_Unsorted(pairs) == pairs

\* A mapping's items as json.dumps visits them with sort_keys=True.
DumpItems(pairs) == SortPairs(pairs)

\* json.dumps(value, sort_keys=True, ensure_ascii=True)
RECURSIVE Dumps(_)
Dumps(v) ==
    CASE Kind(v) = "null" -> "null"
      [] Kind(v) = "bool" -> IF Payload(v) THEN "true" ELSE "false"
      [] Kind(v) = "num"  -> ToString(Payload(v))
      [] Kind(v) = "str"  -> "\"" \o JsonEscape(Payload(v)) \o "\""
      [] Kind(v) = "list" ->
            "[" \o Join(", ", [i \in 1..Len(Payload(v)) |-> Dumps(Payload(v)[i])]) \o "]"
      [] Kind(v) = "dict" ->
            LET items == DumpItems(Payload(v))
            IN "{" \o Join(", ", [i \in 1..Len(items) |->
                      "\"" \o JsonEscape(items[i][1]) \o "\": " \o Dumps(items[i][2])]) \o "}"

\* hashlib.sha256(...).hexdigest(): an opaque digest of the serialized text,
\* taken to be collision free.
Sha256(text) == "sha256:" \o text

compute_hash(value) == Sha256(Dumps(value))

----------------------------------------------------------------------------
(* create_preview *)

TextPreviewLen == 40
DefaultMaxLength == 60

Returned(s) == [ok |-> TRUE, s |-> s]
Raised == [ok |-> FALSE, s |-> "TypeError"]

\* len(x) is defined for str, list and dict only.
HasLen(v) == Kind(v) \in {"str", "list", "dict"}
PyLen(v) == Len(Payload(v))

\* f"{x[:n]}" for a str or a list x.
SliceText(v, n) ==
    IF IsStr(v) THEN Take(Payload(v), n)
    ELSE PyRepr(JList(Take(Payload(v), n)))

\* Mutant: the role+content recognizer is tried before type+text.
create_preview_RoleFirst(value) ==
    IF IsDict(value) THEN
        LET d == Payload(value) IN
        IF HasKey(d, "role") /\ HasKey(d, "content") THEN
            LET role == PyStr(Get(d, "role"))
                content == PyStr(Get(d, "content"))
            IN IF Len(content) > TextPreviewLen
               THEN Returned("message " \o role \o ": '" \o Take(content, TextPreviewLen) \o "...'")
               ELSE Returned("message " \o role \o ": '" \o content \o "'")
        ELSE IF HasKey(d, "type") /\ HasKey(d, "text") THEN
            LET text == Get(d, "text") IN
            IF ~HasLen(text) THEN Raised
            ELSE IF PyLen(text) > TextPreviewLen THEN
                IF IsDict(text) THEN Raised
                ELSE Returned("dict with text: '" \o SliceText(text, TextPreviewLen) \o "...'")
            ELSE Returned("dict with text: '" \o PyStr(text) \o "'")
        ELSE IF HasKey(d, "name") /\ HasKey(d, "description") THEN
            Returned("tool: " \o PyStr(Get(d, "name")))
        ELSE
            Returned("dict with keys: " \o Join(", ", Take(KeysOf(d), 3))
                     \o (IF Len(d) > 3 THEN "..." ELSE ""))
    ELSE IF IsList(value) THEN
        Returned("array with " \o ToString(PyLen(value)) \o " items")
    ELSE IF IsStr(value) THEN
        IF Len(Payload(value)) > DefaultMaxLength
        THEN Returned("'" \o Take(Payload(value), DefaultMaxLength) \o "...'")
        ELSE Returned("'" \o Payload(value) \o "'")
    ELSE Returned(PyRepr(value))

create_preview(value) ==
    IF IsDict(value) THEN
        LET d == Payload(value) IN
        IF HasKey(d, "type") /\ HasKey(d, "text") THEN
            LET text == Get(d, "text") IN
            IF ~HasLen(text) THEN Raised
            ELSE IF PyLen(text) > TextPreviewLen THEN
                IF IsDict(text) THEN Raised
                ELSE Returned("dict with text: '" \o SliceText(text, TextPreviewLen) \o "...'")
            ELSE Returned("dict with text: '" \o PyStr(text) \o "'")
        ELSE IF HasKey(d, "role") /\ HasKey(d, "content") THEN
            LET role == PyStr(Get(d, "role"))
                content == PyStr(Get(d, "content"))
            IN IF Len(content) > TextPreviewLen
               THEN Returned("message " \o role \o ": '" \o Take(content, TextPreviewLen) \o "...'")
               ELSE Returned("message " \o role \o ": '" \o content \o "'")
        ELSE IF HasKey(d, "name") /\ HasKey(d, "description") THEN
            Returned("tool: " \o PyStr(Get(d, "name")))
        ELSE
            Returned("dict with keys: " \o Join(", ", Take(KeysOf(d), 3))
                     \o (IF Len(d) > 3 THEN "..." ELSE ""))
    ELSE IF IsList(value) THEN
        Returned("array with " \o ToString(PyLen(value)) \o " items")
    ELSE IF IsStr(value) THEN
        IF Len(Payload(value)) > DefaultMaxLength
        THEN Returned("'" \o Take(Payload(value), DefaultMaxLength) \o "...'")
        ELSE Returned("'" \o Payload(value) \o "'")
    ELSE Returned(PyRepr(value))

----------------------------------------------------------------------------
(* cache_and_replace *)

\* Mutant: the cache_json flag is never consulted.
CacheEnabled_Always == TRUE

\* if not self.cache_json: return value
CacheEnabled == cache_json

\* Mutant: a list counts as a primitive, only mappings are collapsed.
IsPrimitive_ListToo(value) == ~IsDict(value)

\* not isinstance(value, (dict, list))
IsPrimitive(value) == ~IsComposite(value)

\* Mutant: the lookup never finds an entry.
InCache_Never(cache, h) == FALSE

\* value_hash in self.json_cache
InCache(cache, h) == h \in DOMAIN cache

\* Mutant: a cache of capacity one, the insert evicts what was there.
CacheInsert_Evicting(cache, h, preview) == [x \in {h} |-> preview]

\* self.json_cache[value_hash] = preview
CacheInsert(cache, h, preview) ==
    [x \in (DOMAIN cache) \cup {h} |-> IF x = h THEN preview ELSE cache[x]]

\* f"... (cached: {self.json_cache[value_hash]})"
Marker(preview) == "... (cached: " \o preview \o ")"

ExemptKeys == {"model", "max_tokens", "stream"}

\* Mutant: no key is exempt.
IsExempt_Never(path, key) == FALSE

\* path == "" and key in ["model", "max_tokens", "stream"]
IsExempt(path, key) == path = "" /\ key \in ExemptKeys

\* f"{path}.{key}" if path else key
KeyPath(path, key) == IF path # "" THEN path \o "." \o key ELSE key

\* f"{path}[{i}]", i counted from 0
IndexPath(path, i) == path \o "[" \o ToString(i - 1) \o "]"

\* One composite reached by cache_and_replace: where, what, its hash, and
\* whether it was inserted ("new"), found ("hit") or create_preview raised.
Visit(st, path, value, h, what) ==
    Append(st.visits, [path |-> path, value |-> value, hash |-> h, what |-> what])

\* st = [cache, visits, ok]: the cache, the composites visited so far in this
\* pass, and whether no exception is propagating.
RECURSIVE cache_and_replace(_, _, _)
RECURSIVE CollapseDict(_, _, _, _, _)
RECURSIVE CollapseList(_, _, _, _, _)

cache_and_replace(st, value, path) ==
    IF ~CacheEnabled THEN [st |-> st, res |-> value]
    ELSE IF IsPrimitive(value) THEN [st |-> st, res |-> value]
    ELSE
        LET value_hash == compute_hash(value) IN
        IF InCache(st.cache, value_hash) THEN
            [st  |-> [st EXCEPT !.visits = Visit(st, path, value, value_hash, "hit")],
             res |-> JStr(Marker(st.cache[value_hash]))]
        ELSE
            LET preview == create_preview(value) IN
            IF ~preview.ok THEN
                [st  |-> [st EXCEPT !.ok = FALSE,
                                    !.visits = Visit(st, path, value, value_hash, "raise")],
                 res |-> Null]
            ELSE
                LET st1 == [cache  |-> CacheInsert(st.cache, value_hash, preview.s),
                            visits |-> Visit(st, path, value, value_hash, "new"),
                            ok     |-> TRUE]
                IN IF IsDict(value)
                   THEN CollapseDict(st1, Payload(value), 1, <<>>, path)
                   ELSE CollapseList(st1, Payload(value), 1, <<>>, path)

\* for key, val in value.items(): ...
CollapseDict(st, pairs, i, result, path) ==
    IF i > Len(pairs) THEN [st |-> st, res |-> JDict(result)]
    ELSE
        LET key == pairs[i][1]
            val == pairs[i][2]
        IN IF IsExempt(path, key)
           THEN CollapseDict(st, pairs, i + 1, Append(result, <<key, val>>), path)
           ELSE LET r == cache_and_replace(st, val, KeyPath(path, key))
                IN IF ~r.st.ok THEN r
                   ELSE CollapseDict(r.st, pairs, i + 1, Append(result, <<key, r.res>>), path)

\* for i, item in enumerate(value): ...
CollapseList(st, items, i, result, path) ==
    IF i > Len(items) THEN [st |-> st, res |-> JList(result)]
    ELSE
        LET r == cache_and_replace(st, items[i], IndexPath(path, i))
        IN IF ~r.st.ok THEN r
           ELSE CollapseList(r.st, items, i + 1, Append(result, r.res), path)

----------------------------------------------------------------------------
(* filter_tools *)

ToolsPlaceholder == "... (hidden, use --show-tools to display)"

filter_tools(json_obj) ==
    IF ~show_tools /\ IsDict(json_obj) /\ HasKey(Payload(json_obj), "tools")
    THEN JDict([i \in 1..Len(Payload(json_obj)) |->
                  IF Payload(json_obj)[i][1] = "tools"
                  THEN <<"tools", JStr(ToolsPlaceholder)>>
                  ELSE Payload(json_obj)[i]])
    ELSE json_obj

----------------------------------------------------------------------------
(* The JSON branch of print_request and print_response *)

FreshPass(cache) == [cache |-> cache, visits |-> <<>>, ok |-> TRUE]

\* filtered_body = self.filter_tools(cached_body): what the JSON branch leaves
\* is the cache, whether it returned, the collapsed body (res) and the body
\* handed to format_json (shown).
FilterCollapsed(r) ==
    [cache |-> r.st.cache, ok |-> r.st.ok, visits |-> r.st.visits,
     res |-> r.res, shown |-> IF r.st.ok THEN filter_tools(r.res) ELSE Null]

\* Mutant: the placeholder is put in first, the collapse runs after it.
RenderJson_FilterFirst(cache, json_body) ==
    FilterCollapsed(cache_and_replace(FreshPass(cache), filter_tools(json_body), ""))

\* cached_body = self.cache_and_replace(json_body)
\* filtered_body = self.filter_tools(cached_body)
RenderJson(cache, json_body) ==
    FilterCollapsed(cache_and_replace(FreshPass(cache), json_body, ""))

----------------------------------------------------------------------------
(* format_json *)

\* TEXT_COLOR = "\033[96m" and colorama's Style.RESET_ALL = "\033[0m"; the
\* escape character is written here as the four characters \033.
TEXT_COLOR == "\\033[96m"
RESET_ALL == "\\033[0m"

\* "  " * indent
RECURSIVE IndentStr(_)
IndentStr(indent) == IF indent = 0 THEN "" ELSE "  " \o IndentStr(indent - 1)

\* len(obj) > 20
LongTextLen == 20

\* key in ("text", "content")
IsTextField_Inherited(key, in_text_field) == in_text_field \/ key \in {"text", "content"}

IsTextField(key, in_text_field) == key \in {"text", "content"}

\* The str branch of format_json.
FormatStr(obj, indent_str, in_text_field) ==
    IF in_text_field /\ Contains(obj, "\n")
    THEN "\n" \o TEXT_COLOR
         \o Join("\n", [i \in 1..Len(Split(obj, "\n")) |->
                            indent_str \o "  " \o Split(obj, "\n")[i]])
         \o "\n" \o indent_str \o RESET_ALL
    ELSE IF in_text_field /\ Len(obj) > LongTextLen
         THEN TEXT_COLOR \o Dumps(JStr(obj)) \o RESET_ALL
         ELSE Dumps(JStr(obj))

RECURSIVE format_json(_, _, _)
format_json(obj, indent, in_text_field) ==
    CASE Kind(obj) = "null" -> "null"
      [] Kind(obj) = "bool" -> IF Payload(obj) THEN "true" ELSE "false"
      [] Kind(obj) = "num"  -> ToString(Payload(obj))
      [] Kind(obj) = "str"  -> FormatStr(Payload(obj), IndentStr(indent), in_text_field)
      [] Kind(obj) = "list" ->
            IF Len(Payload(obj)) = 0 THEN "[]"
            ELSE "[\n"
                 \o Join(",\n", [i \in 1..Len(Payload(obj)) |->
                        IndentStr(indent) \o "  "
                        \o format_json(Payload(obj)[i], indent + 1, in_text_field)])
                 \o "\n" \o IndentStr(indent) \o "]"
      [] Kind(obj) = "dict" ->
            IF Len(Payload(obj)) = 0 THEN "{}"
            ELSE "{\n"
                 \o Join(",\n", [i \in 1..Len(Payload(obj)) |->
                        IndentStr(indent) \o "  \"" \o Payload(obj)[i][1] \o "\": "
                        \o format_json(Payload(obj)[i][2], indent + 1,
                                       IsTextField(Payload(obj)[i][1], in_text_field))])
                 \o "\n" \o IndentStr(indent) \o "}"

----------------------------------------------------------------------------
(* parse_streaming_response *)

\* The characters str.strip() removes, of those the model's texts hold.
IsSpace(c) == c \in {" ", "\n"}

\* The number of whitespace characters s starts with, and ends with.
Leading(s) ==
    CHOOSE n \in 0..Len(s) :
        /\ \A j \in 1..n : IsSpace(Char(s, j))
        /\ n = Len(s) \/ ~IsSpace(Char(s, n + 1))

Trailing(s) ==
    CHOOSE n \in 0..Len(s) :
        /\ \A j \in 1..n : IsSpace(Char(s, Len(s) + 1 - j))
        /\ n = Len(s) \/ ~IsSpace(Char(s, Len(s) - n))

LStrip(s) == SubSeq(s, Leading(s) + 1, Len(s))
RStrip(s) == SubSeq(s, 1, Len(s) - Trailing(s))

\* s.strip()
Strip(s) == RStrip(LStrip(s))

\* s[n:]
Drop(s, n) == IF Len(s) <= n THEN "" ELSE SubSeq(s, n + 1, Len(s))

EventPrefix == "event: "
DataPrefix == "data: "

\* bool(v) of a parsed JSON value
Truthy(v) ==
    CASE Kind(v) = "null" -> FALSE
      [] Kind(v) = "bool" -> Payload(v)
      [] Kind(v) = "num"  -> Payload(v) # 0
      [] OTHER            -> Len(Payload(v)) > 0

\* v == s for a parsed JSON value v and a str literal s
IsStrEq(v, s) == IsStr(v) /\ Payload(v) = s

\* d.get(key, default) of a dict d
DictGet(d, key, default) ==
    IF HasKey(Payload(d), key) THEN Get(Payload(d), key) ELSE default

EmptyDict == JDict(<<>>)

\* The JSON values whose texts the data lines of the model's streams carry.
PayloadStart(message) == JDict(<<KV("message", message), KV("type", JStr("message_start"))>>)
PayloadDelta(delta) == JDict(<<KV("delta", delta), KV("type", JStr("content_block_delta"))>>)
TextDelta(text) == JDict(<<KV("text", text), KV("type", JStr("text_delta"))>>)
UsageInOut == JDict(<<KV("input_tokens", JNum(3)), KV("output_tokens", JNum(1))>>)
MessageM1 == JDict(<<KV("id", JStr("msg_1")), KV("model", JStr("m1"))>>)
MessageM2 == JDict(<<KV("id", JStr("msg_2")), KV("model", JStr("m2")), KV("usage", UsageInOut)>>)
MessageNoId == JDict(<<KV("model", Null), KV("usage", EmptyDict)>>)
MessageUsageNum == JDict(<<KV("id", JStr("msg_3")), KV("usage", JNum(7))>>)
DeltaHel == PayloadDelta(TextDelta(JStr("Hel")))
DeltaLo == PayloadDelta(TextDelta(JStr("lo")))
DeltaLoIndex1 ==
    JDict(<<KV("delta", TextDelta(JStr("lo"))), KV("index", JNum(1)),
            KV("type", JStr("content_block_delta"))>>)
DeltaEmptyText == PayloadDelta(TextDelta(JStr("")))
DeltaNoText == PayloadDelta(JDict(<<KV("type", JStr("text_delta"))>>))
DeltaNullText == PayloadDelta(TextDelta(Null))
DeltaNumText == PayloadDelta(TextDelta(JNum(5)))
DeltaJson ==
    PayloadDelta(JDict(<<KV("partial_json", JStr("{")), KV("type", JStr("input_json_delta"))>>))
DeltaNull == PayloadDelta(Null)
DeltaUntyped == JDict(<<KV("delta", TextDelta(JStr("zz")))>>)
BlockStart0 == JDict(<<KV("type", JStr("content_block_start"))>>)
BlockStart2 == JDict(<<KV("index", JNum(2)), KV("type", JStr("content_block_start"))>>)
BlockStop == JDict(<<KV("index", JNum(0)), KV("type", JStr("content_block_stop"))>>)
StopEndTurn ==
    JDict(<<KV("delta", JDict(<<KV("stop_reason", JStr("end_turn"))>>)),
            KV("type", JStr("message_delta")),
            KV("usage", JDict(<<KV("output_tokens", JNum(9))>>))>>)
StopNoDelta == JDict(<<KV("type", JStr("message_delta"))>>)
StopNullDelta == JDict(<<KV("delta", Null), KV("type", JStr("message_delta"))>>)
StopListUsage ==
    JDict(<<KV("delta", EmptyDict), KV("type", JStr("message_delta")),
            KV("usage", ListOne)>>)

StreamPayloads ==
    {PayloadStart(MessageM1), PayloadStart(MessageM2), PayloadStart(MessageNoId),
     PayloadStart(MessageUsageNum), PayloadStart(Null), PayloadStart(JStr("m")),
     DeltaHel, DeltaLo, DeltaLoIndex1, DeltaEmptyText, DeltaNoText, DeltaNullText,
     DeltaNumText, DeltaJson, DeltaNull, DeltaUntyped,
     BlockStart0, BlockStart2, BlockStop,
     StopEndTurn, StopNoDelta, StopNullDelta, StopListUsage,
     EmptyDict, ListOne, Null, JNum(0), JNum(5), JBool(TRUE), JStr("done")}

\* The JSON text of each of them.
PayloadTexts == [v \in StreamPayloads |-> Dumps(v)]

\* json.loads(text), on the texts the model's streams carry: the value whose
\* JSON text it is, or JSONDecodeError when it is the text of none.
IsJsonText(text) == \E v \in StreamPayloads : PayloadTexts[v] = text
Loads(text) == CHOOSE v \in StreamPayloads : PayloadTexts[v] = text

\* try: json.loads(...)  except json.JSONDecodeError: the raw text
LoadsOrRaw_AlwaysRaw(text) == JStr(text)

LoadsOrRaw(text) == IF IsJsonText(text) THEN Loads(text) ELSE JStr(text)

\* current_event is None, or one record: <<>> or <<record>>.
NoEvent == <<>>

\* if current_event: events.append(current_event)
Flush(events, current_event) == events \o current_event

\* current_event = {'event': line[7:].strip(), 'data': None}
OpenEvent(line) == <<[event |-> Strip(Drop(line, Len(EventPrefix))), data |-> Null]>>

\* Mutant: a data line with no open record opens one.
SetData_OpensRecord(current_event, line) ==
    <<[event |-> IF current_event = NoEvent THEN "" ELSE current_event[1].event,
       data  |-> LoadsOrRaw(Strip(Drop(line, Len(DataPrefix))))]>>

\* if current_event: current_event['data'] = ...
SetData(current_event, line) ==
    IF current_event = NoEvent THEN NoEvent
    ELSE <<[current_event[1] EXCEPT !.data = LoadsOrRaw(Strip(Drop(line, Len(DataPrefix))))]>>

\* The loop over the lines (175-185) and the flush after it (187-188).
RECURSIVE ParseLines(_, _, _, _)
ParseLines(lines, i, events, current_event) ==
    IF i > Len(lines) THEN Flush(events, current_event)
    ELSE IF IsPrefix(EventPrefix, lines[i])
         THEN ParseLines(lines, i + 1, Flush(events, current_event), OpenEvent(lines[i]))
    ELSE IF IsPrefix(DataPrefix, lines[i])
         THEN ParseLines(lines, i + 1, events, SetData(current_event, lines[i]))
    ELSE ParseLines(lines, i + 1, events, current_event)

\* lines = body_text.strip().split('\n')
StreamLines(body_text) == Split(Strip(body_text), "\n")

ParseEvents(body_text) == ParseLines(StreamLines(body_text), 1, <<>>, NoEvent)

\* What a part of the summary contributes: its lines, or an exception
\* (AttributeError of .get on a value that is no dict, TypeError of join).
Lines(ls) == [ok |-> TRUE, lines |-> ls]
Fails == [ok |-> FALSE, lines |-> <<>>]

\* The test of the loop at 191-195.
IsDeltaEvent_AnyEvent(event) ==
    /\ Truthy(event.data)
    /\ IsDict(event.data)
    /\ IsStrEq(DictGet(event.data, "type", Null), "content_block_delta")

IsDeltaEvent(event) ==
    /\ event.event = "content_block_delta"
    /\ Truthy(event.data)
    /\ IsDict(event.data)
    /\ IsStrEq(DictGet(event.data, "type", Null), "content_block_delta")

\* delta = event['data'].get('delta', {})
DeltaOf(data) == DictGet(data, "delta", EmptyDict)

\* Lines 191-198: text_deltas, or the exception of delta.get.
RECURSIVE CollectDeltas(_, _, _)
CollectDeltas(events, i, text_deltas) ==
    IF i > Len(events) THEN Lines(text_deltas)
    ELSE IF ~IsDeltaEvent(events[i]) THEN CollectDeltas(events, i + 1, text_deltas)
    ELSE IF ~IsDict(DeltaOf(events[i].data)) THEN Fails
    ELSE IF IsStrEq(DictGet(DeltaOf(events[i].data), "type", Null), "text_delta")
         THEN CollectDeltas(events, i + 1,
                  Append(text_deltas, DictGet(DeltaOf(events[i].data), "text", JStr(""))))
    ELSE CollectDeltas(events, i + 1, text_deltas)

\* ''.join(text_deltas)
RECURSIVE Concat(_)
Concat(strs) == IF Len(strs) = 0 THEN "" ELSE Payload(Head(strs)) \o Concat(Tail(strs))

\* Lines 221-223.
MergedLines(text_deltas) ==
    IF Len(text_deltas) = 0 THEN Lines(<<>>)
    ELSE IF \E i \in 1..Len(text_deltas) : ~IsStr(text_deltas[i]) THEN Fails
    ELSE Lines(<<"  - content_block_delta (merged): \"" \o Concat(text_deltas) \o "\"">>)

\* for event in events: if <test>: ... break  -- the event the loop stops at
\* (0 when it runs to the end)
RECURSIVE FirstEvent(_, _, _, _)
FirstEvent(events, name, needs_data, i) ==
    IF i > Len(events) THEN 0
    ELSE IF events[i].event = name /\ (needs_data => Truthy(events[i].data)) THEN i
    ELSE FirstEvent(events, name, needs_data, i + 1)

\* Mutant: the loop has no break and the last matching event is shown.
FirstOf_Last(events, name, needs_data) ==
    IF FirstEvent(events, name, needs_data, 1) = 0 THEN 0
    ELSE CHOOSE i \in 1..Len(events) :
            /\ events[i].event = name /\ (needs_data => Truthy(events[i].data))
            /\ \A j \in (i + 1)..Len(events) :
                  ~(events[j].event = name /\ (needs_data => Truthy(events[j].data)))

FirstOf(events, name, needs_data) == FirstEvent(events, name, needs_data, 1)

\* Lines 209-211, for the usage of a message_start.
StartUsageLines(usage) ==
    IF ~Truthy(usage) THEN Lines(<<>>)
    ELSE IF ~IsDict(usage) THEN Fails
    ELSE Lines(<<"    usage: input_tokens=" \o PyStr(DictGet(usage, "input_tokens", Null))
                 \o ", output_tokens=" \o PyStr(DictGet(usage, "output_tokens", Null))>>)

\* Both parts of an entry, unless one of them raised.
Both(a, b) == IF a.ok /\ b.ok THEN Lines(a.lines \o b.lines) ELSE Fails

\* Lines 207-211, for the payload of the message_start found.
StartLines(data) ==
    IF ~IsDict(data) THEN Fails
    ELSE IF ~IsDict(DictGet(data, "message", EmptyDict)) THEN Fails
    ELSE Both(Lines(<<"  - message_start: model="
                      \o PyStr(DictGet(DictGet(data, "message", EmptyDict), "model", Null))
                      \o ", id="
                      \o PyStr(DictGet(DictGet(data, "message", EmptyDict), "id", Null))>>),
              StartUsageLines(DictGet(DictGet(data, "message", EmptyDict), "usage", EmptyDict)))

\* Line 217, for the payload of the content_block_start found.
BlockStartLines(data) ==
    IF ~IsDict(data) THEN Fails
    ELSE Lines(<<"  - content_block_start: index=" \o PyStr(DictGet(data, "index", JNum(0)))>>)

\* Lines 236-238, for the usage of a message_delta.
DeltaUsageLines(usage) ==
    IF ~Truthy(usage) THEN Lines(<<>>)
    ELSE IF ~IsDict(usage) THEN Fails
    ELSE Lines(<<"    usage: output_tokens=" \o PyStr(DictGet(usage, "output_tokens", Null))>>)

\* Lines 234-238, for the payload of the message_delta found.
MessageDeltaLines(data) ==
    IF ~IsDict(data) THEN Fails
    ELSE IF ~IsDict(DeltaOf(data)) THEN Fails
    ELSE Both(Lines(<<"  - message_delta: stop_reason="
                      \o PyStr(DictGet(DeltaOf(data), "stop_reason", Null))>>),
              DeltaUsageLines(DictGet(data, "usage", EmptyDict)))

HeaderText == "Streaming response events:"

\* Lines 200-247: the six parts in the order the code appends them.
SummaryParts(events, text_deltas) ==
    << Lines(<<HeaderText>>),
       IF FirstOf(events, "message_start", TRUE) = 0 THEN Lines(<<>>)
       ELSE StartLines(events[FirstOf(events, "message_start", TRUE)].data),
       IF FirstOf(events, "content_block_start", FALSE) = 0 THEN Lines(<<>>)
       ELSE BlockStartLines(events[FirstOf(events, "content_block_start", FALSE)].data),
       IF text_deltas.ok THEN MergedLines(text_deltas.lines) ELSE Fails,
       IF FirstOf(events, "content_block_stop", FALSE) = 0 THEN Lines(<<>>)
       ELSE Lines(<<"  - content_block_stop">>),
       IF FirstOf(events, "message_delta", TRUE) = 0 THEN Lines(<<>>)
       ELSE MessageDeltaLines(events[FirstOf(events, "message_delta", TRUE)].data),
       IF FirstOf(events, "message_stop", FALSE) = 0 THEN Lines(<<>>)
       ELSE Lines(<<"  - message_stop">>) >>

RECURSIVE Flatten(_)
Flatten(parts) == IF Len(parts) = 0 THEN <<>> ELSE Head(parts).lines \o Flatten(Tail(parts))

\* What one call leaves: the events parsed, the fragments, and the text
\* returned (ok) or the exception raised (~ok).
Condensed(body_text, events, text_deltas, parts) ==
    [text |-> body_text, events |-> events, text_deltas |-> text_deltas.lines,
     parts |-> parts,
     ok  |-> \A k \in 1..Len(parts) : parts[k].ok,
     out |-> IF \A k \in 1..Len(parts) : parts[k].ok
             THEN Join("\n", Flatten(parts)) ELSE ""]

Summarize(body_text, events, text_deltas) ==
    Condensed(body_text, events, text_deltas, SummaryParts(events, text_deltas))

Condense(body_text, events) ==
    Summarize(body_text, events, CollectDeltas(events, 1, <<>>))

parse_streaming_response(body_text) == Condense(body_text, ParseEvents(body_text))

----------------------------------------------------------------------------
(* Bodies and the two printers *)

\* A body as the handler holds it: no bytes at all; the bytes of a JSON
\* text, given by the value json.loads returns for them; the bytes of a text
\* that json.loads rejects, given by what they decode to; or n bytes that are
\* not UTF-8.
NoBody == <<"none">>
JsonBody(v) == <<"json", v>>
TextBody(body_text) == <<"text", body_text>>
BinaryBody(n) == <<"binary", n>>

\* What one call of a printer leaves behind: the counter, the cache, whether it
\* returned (ok) or raised, the block it printed, and the record of its
\* collapse pass (none when the body was not collapsed).
PassRecord(cache, json_body, r) ==
    [src |-> json_body, before |-> cache, after |-> r.cache, ok |-> r.ok,
     res |-> r.res, shown |-> r.shown, visits |-> r.visits]

\* print(self.format_json(filtered_body)), or the exception on its way out
PrintedJson(cache, json_body, r) ==
    [cache |-> r.cache, ok |-> r.ok,
     out   |-> IF r.ok THEN <<"json", r.shown>> ELSE <<"raised">>,
     pass  |-> <<PassRecord(cache, json_body, r)>>, stream |-> <<>>]

\* A body branch that leaves the cache alone and prints what.
PrintedAsIs(cache, what) ==
    [cache |-> cache, ok |-> TRUE, out |-> what, pass |-> <<>>, stream |-> <<>>]

\* except json.JSONDecodeError: print(body_text)
PrintRaw_Collapsing(cache, body_text) ==
    PrintedJson(cache, JStr(body_text), RenderJson(cache, JList(<<JStr(body_text)>>)))

PrintRaw(cache, body_text) == PrintedAsIs(cache, <<"text", body_text>>)

\* except UnicodeDecodeError: print(f"  [Binary data: {len(body)} bytes]")
PrintBinary(cache, n) ==
    PrintedAsIs(cache, <<"binary", "  [Binary data: " \o ToString(n) \o " bytes]">>)

\* if body: ... body_text = body.decode('utf-8') ... json_body = json.loads(body_text) ...
PrintBody(cache, body) ==
    CASE body[1] = "none"   -> PrintedAsIs(cache, <<"nothing">>)
      [] body[1] = "json"   -> PrintedJson(cache, body[2], RenderJson(cache, body[2]))
      [] body[1] = "text"   -> PrintRaw(cache, body[2])
      [] body[1] = "binary" -> PrintBinary(cache, body[2])

\* condensed = self.parse_streaming_response(body_text); print(condensed)
PrintedStream(cache, condensed) ==
    [cache |-> cache, ok |-> condensed.ok,
     out   |-> IF condensed.ok THEN <<"stream", condensed.out>> ELSE <<"raised">>,
     pass  |-> <<>>, stream |-> <<condensed>>]

\* body_text.strip().startswith('event: ')
IsStream(body) == body[1] = "text" /\ IsPrefix(EventPrefix, Strip(body[2]))

\* The lines of a block, one per call of print(): <<what, text>>.
BodySizeLine == <<"size", "Body">>
BlankLine == <<"blank", "">>

BodyLines(out) ==
    CASE out[1] = "nothing" -> <<>>
      [] out[1] = "raised"  -> <<BodySizeLine>>
      [] out[1] = "json"    -> <<BodySizeLine, <<"body", format_json(out[2], 0, FALSE)>>>>
      [] OTHER              -> <<BodySizeLine, <<"body", out[2]>>>>

\* self.print_separator(char); print(f"[{self.request_count}] {kind} {timestamp}"); ...
HeadLines(char, n, kind, first) ==
    << <<"separator", char>>, <<"header", "[" \o ToString(n) \o "] " \o kind>>,
       <<"separator", char>>, first >>

\* One printed block: its header (kind and the counter shown in it), the
\* body it was given and the cache it found, what the body branch did (out,
\* and the cache it left), and the lines written; the closing print() is not
\* reached when the body branch raised.
Block(kind, n, head, cache, body, b) ==
    [count |-> n, cache |-> b.cache, ok |-> b.ok, pass |-> b.pass, stream |-> b.stream,
     block |-> [kind |-> kind, n |-> n, body |-> body, before |-> cache,
                after |-> b.cache, ok |-> b.ok, out |-> b.out,
                lines |-> head \o BodyLines(b.out)
                          \o (IF b.ok THEN <<BlankLine>> ELSE <<>>)]]

print_request(count, cache, body) ==
    Block("REQUEST", count + 1, HeadLines("=", count + 1, "REQUEST", <<"target", "">>),
          cache, body, PrintBody(cache, body))

print_response(count, cache, status, body) ==
    Block("RESPONSE", count,
          HeadLines("-", count, "RESPONSE", <<"status", "Status: " \o ToString(status)>>),
          cache, body,
          IF IsStream(body) THEN PrintedStream(cache, parse_streaming_response(body[2]))
                            ELSE PrintBody(cache, body))

----------------------------------------------------------------------------
(* The documents the model feeds in *)


DocA1 == JDict(<<KV("a", One)>>)
DocA2 == JDict(<<KV("a", Two)>>)
DocB1 == JDict(<<KV("b", One)>>)
DocAStr == JDict(<<KV("a", JStr("1"))>>)
DocATrue == JDict(<<KV("a", JBool(TRUE))>>)
DocAList == JDict(<<KV("a", ListOne)>>)
DocANull == JDict(<<KV("a", Null)>>)
\* the same mapping in two insertion orders
DocAB == JDict(<<KV("a", One), KV("b", ListOneTwo)>>)
DocBA == JDict(<<KV("b", ListOneTwo), KV("a", One)>>)
DocNestPQ == JDict(<<KV("m", JDict(<<KV("p", One), KV("q", Two)>>))>>)
DocNestQP == JDict(<<KV("m", JDict(<<KV("q", Two), KV("p", One)>>))>>)
\* empty composites, and composites that repeat inside one document
DocEmptyDict == JDict(<<>>)
DocEmptyList == JList(<<>>)
DocEmpties == JDict(<<KV("x", DocEmptyDict), KV("y", DocEmptyList), KV("z", DocEmptyDict)>>)
DocListA1 == JList(<<DocA1, DocA1>>)
\* two documents whose serializations differ only by the escaping of quotes
DocQuoted == JDict(<<KV("k", JStr("x\", \"l\": \"y"))>>)
DocUnquoted == JDict(<<KV("k", JStr("x")), KV("l", JStr("y"))>>)
DocFive == JDict(<<KV("a", One), KV("b", Two), KV("c", JNum(3)), KV("d", JNum(4))>>)
\* messages
MsgUserHi == JDict(<<KV("role", JStr("user")), KV("content", JStr("hi"))>>)
BlockYo == JDict(<<KV("type", JStr("text")), KV("text", JStr("yo"))>>)
MsgAssistantYo == JDict(<<KV("role", JStr("assistant")), KV("content", JList(<<BlockYo>>))>>)
DocReq1 ==
    JDict(<<KV("model", JStr("m1")), KV("max_tokens", JNum(5)),
            KV("messages", JList(<<MsgUserHi>>))>>)
DocReq2 ==
    JDict(<<KV("model", JStr("m1")), KV("max_tokens", JNum(5)),
            KV("messages", JList(<<MsgUserHi, MsgAssistantYo>>))>>)
\* composite values under the keys cache_and_replace copies as they are
DocModelA1 == JDict(<<KV("model", DocA1), KV("x", Two)>>)
DocXModelA1 == JDict(<<KV("x", DocA1), KV("model", DocA1)>>)
DocStream == JDict(<<KV("stream", ListOne), KV("a", ListOne)>>)
DocEmptyKey == JDict(<<KV("", JDict(<<KV("model", DocA1)>>))>>)
\* tools
DocToolItem == JDict(<<KV("name", JStr("t")), KV("description", JStr("d"))>>)
DocTools == JDict(<<KV("tools", JList(<<DocToolItem>>)), KV("a", One)>>)
\* "type" and "text" together, with a text of every kind
DocTextNull == JDict(<<KV("type", JStr("text")), KV("text", Null)>>)
DocTextNum ==
    JDict(<<KV("content", JList(<<JDict(<<KV("type", JStr("text")), KV("text", JNum(5))>>)>>)),
            KV("z", ListOne)>>)
DocTextList == JDict(<<KV("type", JStr("text")), KV("text", JList(<<JStr("a"), One>>))>>)
DocTextLong ==
    JDict(<<KV("type", JStr("text")),
            KV("text", JStr("The quick brown fox jumps over the lazy dog again"))>>)
DocTextLines == JDict(<<KV("type", JStr("text")), KV("text", JStr("a\nb"))>>)
\* JSON texts that are no composite
DocString == JStr("hi")
DocNumber == JNum(5)

\* The JSON documents print_request is given.
RequestDocs ==
    {DocReq1, DocReq2, DocModelA1, DocXModelA1, DocStream, DocEmptyKey, DocTools,
     DocA1, DocA2, DocB1, DocAB, DocBA, DocNestPQ, DocEmpties, DocListA1,
     DocTextNull, DocQuoted}

\* The JSON documents print_response is given.
ResponseDocs ==
    {MsgAssistantYo, DocToolItem, DocTextNum, DocTextList, DocTextLong, DocTextLines,
     DocAStr, DocATrue, DocAList, DocANull, DocNestQP, DocEmptyDict, DocEmptyList,
     DocUnquoted, DocFive, DocString, DocNumber}

----------------------------------------------------------------------------
(* The event streams the model feeds in *)

EventLine(name) == EventPrefix \o name
DataLine(payload) == DataPrefix \o PayloadTexts[payload]
RawDataLine(raw) == DataPrefix \o raw
Stream(lines) == Join("\n", lines)

\* The example of the spec: a message_start, two text deltas, a message_stop.
StreamHello ==
    Stream(<<EventLine("message_start"), DataLine(PayloadStart(MessageM1)), "",
             EventLine("content_block_delta"), DataLine(DeltaHel), "",
             EventLine("content_block_delta"), DataLine(DeltaLo), "",
             EventLine("message_stop"), "", "">>)

\* One event of every type, in the order the API sends them.
StreamFull ==
    Stream(<<"", EventLine("message_start"), DataLine(PayloadStart(MessageM2)),
             EventLine("content_block_start"), DataLine(BlockStart2),
             EventLine("ping"), DataLine(DeltaLo),
             EventLine("content_block_delta"), DataLine(DeltaHel),
             EventLine("content_block_delta"), DataLine(DeltaLoIndex1),
             EventLine("content_block_stop"), DataLine(BlockStop),
             EventLine("message_delta"), DataLine(StopEndTurn),
             EventLine("message_stop"), "">>)

\* The types out of order, several events of most of them.
StreamShuffled ==
    Stream(<<EventLine("message_stop"),
             EventLine("message_delta"), DataLine(StopNoDelta),
             EventLine("content_block_stop"),
             EventLine("content_block_delta"), DataLine(DeltaLo),
             EventLine("content_block_start"), DataLine(BlockStart0),
             EventLine("message_start"), DataLine(PayloadStart(MessageM1)),
             EventLine("message_start"), DataLine(PayloadStart(MessageM2)),
             EventLine("content_block_start"), DataLine(BlockStart2),
             EventLine("message_delta"), DataLine(StopEndTurn),
             EventLine("message_stop"),
             EventLine("content_block_delta"), DataLine(DeltaHel)>>)

\* A data line before the first event line, and lines that are neither.
StreamDangling ==
    Stream(<<DataLine(DeltaHel), ": comment", EventLine("message_stop"),
             " " \o EventLine("message_start"), "data:" \o PayloadTexts[DeltaLo]>>)

\* Two data lines for one event; an event line with spaces around the name.
StreamTwoData ==
    Stream(<<EventLine(" message_start "), DataLine(PayloadStart(MessageM1)),
             DataLine(PayloadStart(MessageM2)),
             EventLine(""), DataLine(DeltaHel)>>)

\* The first message_start and the first message_delta carry no payload, or an empty one.
StreamStartNoData ==
    Stream(<<EventLine("message_start"),
             EventLine("message_start"), DataLine(PayloadStart(MessageM2)),
             EventLine("message_delta"), DataLine(EmptyDict),
             EventLine("message_delta"), DataLine(StopEndTurn)>>)

\* Fields missing or null where the code looks them up with a default.
StreamMissingFields ==
    Stream(<<EventLine("message_start"), DataLine(PayloadStart(MessageNoId)),
             EventLine("content_block_start"), DataLine(BlockStart0),
             EventLine("content_block_delta"), DataLine(DeltaNoText),
             EventLine("content_block_delta"), DataLine(DeltaEmptyText),
             EventLine("content_block_delta"), DataLine(DeltaJson),
             EventLine("message_delta"), DataLine(StopNoDelta)>>)

\* Payloads that are not JSON where the code does not look into them.
StreamRawPayloads ==
    Stream(<<EventLine("content_block_stop"), RawDataLine("{broken"),
             EventLine("message_stop"), RawDataLine("done"),
             EventLine("content_block_delta"), RawDataLine("oops"),
             EventLine("message_start"), RawDataLine("")>>)

\* A content_block_delta event whose payload has no type field, and a text
\* delta under another event name.
StreamUntyped ==
    Stream(<<EventLine("content_block_delta"), DataLine(DeltaUntyped),
             EventLine("content_block_start"), DataLine(DeltaHel)>>)

StreamPingOnly == Stream(<<EventLine("ping"), DataLine(JNum(5))>>)

\* An event with no data line.
StreamBlockStartNoData == Stream(<<EventLine("content_block_start")>>)

\* Payloads that fail JSON decoding.
StreamRawStart == Stream(<<EventLine("message_start"), RawDataLine("oops")>>)
StreamRawBlockStart == Stream(<<EventLine("content_block_start"), RawDataLine("{broken")>>)

\* Payloads that are not mappings.
StreamListDelta == Stream(<<EventLine("message_delta"), DataLine(ListOne)>>)
StreamTrueStart == Stream(<<EventLine("message_start"), DataLine(JBool(TRUE))>>)

\* Fields that are null or of another type.
StreamNullMessage == Stream(<<EventLine("message_start"), DataLine(PayloadStart(Null))>>)
StreamNullDelta ==
    Stream(<<EventLine("content_block_delta"), DataLine(DeltaHel),
             EventLine("content_block_delta"), DataLine(DeltaNull)>>)
StreamNullText ==
    Stream(<<EventLine("content_block_delta"), DataLine(DeltaHel),
             EventLine("content_block_delta"), DataLine(DeltaNullText)>>)
StreamNumText == Stream(<<EventLine("content_block_delta"), DataLine(DeltaNumText)>>)
StreamNullStopDelta == Stream(<<EventLine("message_delta"), DataLine(StopNullDelta)>>)
StreamUsageNum ==
    Stream(<<EventLine("message_start"), DataLine(PayloadStart(MessageUsageNum))>>)
StreamUsageList == Stream(<<EventLine("message_delta"), DataLine(StopListUsage)>>)

\* The texts parse_streaming_response is given.
StreamTexts ==
    {StreamHello, StreamFull, StreamShuffled, StreamDangling, StreamTwoData,
     StreamStartNoData, StreamMissingFields, StreamRawPayloads, StreamUntyped,
     StreamPingOnly, StreamBlockStartNoData, StreamRawStart, StreamRawBlockStart,
     StreamListDelta, StreamTrueStart, StreamNullMessage, StreamNullDelta,
     StreamNullText, StreamNumText, StreamNullStopDelta, StreamUsageNum,
     StreamUsageList, "", "\n"}

----------------------------------------------------------------------------
(* The bodies the printers are given besides the documents above *)

\* Mappings that more than one recognizer of create_preview matches.
DocTextAndMessage ==
    JDict(<<KV("role", JStr("user")), KV("content", JStr("hi")),
            KV("type", JStr("text")), KV("text", JStr("yo"))>>)
DocMessageAndTool ==
    JDict(<<KV("name", JStr("t")), KV("description", JStr("d")),
            KV("content", ListOne), KV("role", JStr("tool"))>>)
DocTextAndTool ==
    JDict(<<KV("name", JStr("t")), KV("text", ListOneTwo), KV("type", One),
            KV("description", Null)>>)
DocHalfMatches ==
    JDict(<<KV("type", JStr("text")), KV("role", JStr("user")), KV("name", JStr("t")),
            KV("description", JStr("d"))>>)
DocNoMatch ==
    JDict(<<KV("type", JStr("text")), KV("role", JStr("user")), KV("name", JStr("t")),
            KV("content_type", JStr("c"))>>)
DocNullTextAndMessage ==
    JDict(<<KV("role", JStr("user")), KV("content", JStr("hi")),
            KV("type", JStr("text")), KV("text", Null)>>)

\* A mapping whose first three keys are longer together than a bound on a
\* preview could be.
DocLongKeys ==
    JDict(<<KV("a_key_with_a_long_name_000", One), KV("b_key_with_a_long_name_000", One),
            KV("c_key_with_a_long_name_000", One)>>)

\* Strings with line breaks, under text-bearing keys and under other keys.
DocTextTwoLines == JDict(<<KV("text", JStr("line1\nline2"))>>)
DocNoteUnderText == JDict(<<KV("text", JDict(<<KV("note", JStr("n1\nn2"))>>))>>)
DocContentUnderOther == JDict(<<KV("a", JDict(<<KV("content", JStr("x1\nx2"))>>))>>)
DocContentList ==
    JDict(<<KV("content", JList(<<JStr("c1\nc2"), JDict(<<KV("k", JStr("k1\nk2"))>>),
                                  JList(<<JStr("d1\nd2")>>), JStr("plain")>>)),
            KV("other", JList(<<JStr("o1\no2")>>))>>)
DocTopList == JList(<<JStr("t1\nt2"), JDict(<<KV("text", JStr("u1\nu2"))>>)>>)
DocTopString == JStr("s1\ns2")
DocLongText ==
    JDict(<<KV("text", JStr("a text of more than twenty characters")),
            KV("title", JStr("a title of more than twenty characters"))>>)

\* The bodies print_request is given.
TraceRequestBodies ==
    {NoBody, TextBody("plain text, not JSON"), TextBody(StreamHello), BinaryBody(3),
     JsonBody(DocA1), JsonBody(DocTextAndMessage), JsonBody(DocMessageAndTool),
     JsonBody(DocTextAndTool), JsonBody(DocHalfMatches), JsonBody(DocNoMatch),
     JsonBody(DocNullTextAndMessage), JsonBody(DocLongKeys), JsonBody(DocTextLines)}

\* The bodies print_response is given.
TraceResponseBodies ==
    {TextBody("{\"cut\": "), TextBody(StreamHello), TextBody(StreamBlockStartNoData),
     TextBody(StreamDangling), TextBody("\n\n " \o StreamPingOnly), BinaryBody(7),
     JsonBody(DocTextTwoLines), JsonBody(DocNoteUnderText), JsonBody(DocContentUnderOther),
     JsonBody(DocContentList), JsonBody(DocTopList), JsonBody(DocTopString),
     JsonBody(DocLongText), JsonBody(ListOneTwo), JsonBody(MsgUserHi)}

----------------------------------------------------------------------------
(* handle_request *)

MaxReq == 2
MaxPrints == 2

MessagesPath == "/v1/messages"
EventLoggingPath == "/api/event_logging/batch"

\* request.path.startswith('/api/event_logging')
IsEventLogging(path) == IsPrefix("/api/event_logging", path)

\* should_print = not is_event_logging or self.show_event_logging
ShouldPrint(path) == ~IsEventLogging(path) \/ show_event_logging

\* What a client sends: the path it asks for and the body it posts.
ClientRequests ==
    {<<MessagesPath, JsonBody(DocReq1)>>, <<MessagesPath, JsonBody(DocTextNull)>>,
     <<MessagesPath, NoBody>>, <<EventLoggingPath, JsonBody(DocA1)>>}

\* What upstream answers: a status and a body.
UpstreamAnswers ==
    {<<200, JsonBody(MsgUserHi)>>, <<200, JsonBody(DocTextNum)>>, <<404, NoBody>>}

\* web.Response(text=error_msg, status=502)
BadGateway == 502
ErrorBody == <<"text", "Error forwarding request">>

NoStatus == 0

\* Lines 322-344, up to the await of the forward: read the body, decide
\* should_print, print the request. An exception raised by print_request
\* leaves the handler before the try statement.
NewCall(path, body, pc) ==
    [pc |-> pc, path |-> path, body |-> body,
     upStatus |-> NoStatus, upBody |-> NoBody, status |-> NoStatus, sent |-> NoBody]

\* The lines of block b, printed for exchange r.
Tagged(lines, b, r) == [i \in 1..Len(lines) |-> [b |-> b, r |-> r, line |-> lines[i]]]

\* Mutant: the header of a block is written ahead of what is already there.
Write_HeaderAhead(out, lines) == <<Head(lines)>> \o out \o Tail(lines)

\* print(...): the calls of one block, made without an await between them.
Write(out, lines) == out \o lines

\* The state a call p of a printer leaves, for exchange r.
Printed(p, r) ==
    /\ request_count' = p.count
    /\ json_cache' = p.cache
    /\ console' = Append(console, p.block @@ [r |-> r])
    /\ stdout' = Write(stdout, Tagged(p.block.lines, Len(console) + 1, r))
    /\ passes' = passes \o p.pass
    /\ streams' = streams \o p.stream

BeginPrinted(path, body, p) ==
    /\ Printed(p, Len(ex) + 1)
    /\ ex' = Append(ex, NewCall(path, body, IF p.ok THEN "forwarding" ELSE "crashed"))

HandleRequest_Begin(path, body) ==
    /\ Len(ex) < MaxReq
    /\ IF ShouldPrint(path)
       THEN BeginPrinted(path, body, print_request(request_count, json_cache, body))
       ELSE /\ ex' = Append(ex, NewCall(path, body, "forwarding"))
            /\ UNCHANGED <<request_count, json_cache, console, passes, stdout, streams>>
    /\ UNCHANGED <<cache_json, show_tools, show_event_logging>>

\* Lines 355-373, and 374-377 when print_response raises: upstream has
\* answered with (status, body); print the response and return it.
\* The call r once upstream has answered (upStatus, upBody) and the handler
\* has returned (status, sent).
Answered(r, upStatus, upBody, status, sent) ==
    [ex EXCEPT ![r] = [@ EXCEPT !.pc = "done", !.upStatus = upStatus, !.upBody = upBody,
                                !.status = status, !.sent = sent]]

\* print(f"{Fore.RED}{error_msg}")
ErrorLine(r) ==
    [kind |-> "ERROR", n |-> request_count, body |-> NoBody, before |-> json_cache,
     after |-> json_cache, ok |-> TRUE, out |-> ErrorBody, r |-> r,
     lines |-> << <<"error", ErrorBody[2]>> >>]

RespondPrinted(r, status, body, p) ==
    /\ json_cache' = p.cache
    /\ passes' = passes \o p.pass
    /\ streams' = streams \o p.stream
    /\ IF p.ok
       THEN /\ console' = Append(console, p.block @@ [r |-> r])
            /\ stdout' = Write(stdout, Tagged(p.block.lines, Len(console) + 1, r))
            /\ ex' = Answered(r, status, body, status, body)
       ELSE /\ console' = console \o <<p.block @@ [r |-> r], ErrorLine(r)>>
            /\ stdout' = Write(Write(stdout, Tagged(p.block.lines, Len(console) + 1, r)),
                               Tagged(ErrorLine(r).lines, Len(console) + 2, r))
            /\ ex' = Answered(r, status, body, BadGateway, ErrorBody)

HandleRequest_Respond(r, status, body) ==
    /\ ex[r].pc = "forwarding"
    /\ IF ShouldPrint(ex[r].path)
       THEN RespondPrinted(r, status, body,
                           print_response(request_count, json_cache, status, body))
       ELSE /\ ex' = Answered(r, status, body, status, body)
            /\ UNCHANGED <<json_cache, console, passes, stdout, streams>>
    /\ UNCHANGED <<cache_json, show_tools, show_event_logging, request_count>>

\* Lines 374-377: the forward itself raised; upstream never answered.
HandleRequest_ForwardError(r) ==
    /\ ex[r].pc = "forwarding"
    /\ ex' = [ex EXCEPT ![r] = [@ EXCEPT !.pc = "failed", !.status = BadGateway,
                                         !.sent = ErrorBody]]
    /\ console' = Append(console, ErrorLine(r))
    /\ stdout' = Write(stdout, Tagged(ErrorLine(r).lines, Len(console) + 1, r))
    /\ UNCHANGED <<cache_json, show_tools, show_event_logging, request_count,
                   json_cache, passes, streams>>

----------------------------------------------------------------------------
(* The printers called one after the other *)

RenderRequest(doc) ==
    /\ Len(console) < MaxPrints
    /\ Printed(print_request(request_count, json_cache, JsonBody(doc)), 0)
    /\ UNCHANGED <<cache_json, show_tools, show_event_logging, ex>>

RenderResponse(doc) ==
    /\ Len(console) < MaxPrints
    /\ Printed(print_response(request_count, json_cache, 200, JsonBody(doc)), 0)
    /\ UNCHANGED <<cache_json, show_tools, show_event_logging, ex>>

----------------------------------------------------------------------------
(* The printers given bodies of every kind *)

MaxTrace == 2

TraceRequest(body) ==
    /\ Len(console) < MaxTrace
    /\ Printed(print_request(request_count, json_cache, body), 0)
    /\ UNCHANGED <<cache_json, show_tools, show_event_logging, ex>>

TraceResponse(status, body) ==
    /\ Len(console) < MaxTrace
    /\ Printed(print_response(request_count, json_cache, status, body), 0)
    /\ UNCHANGED <<cache_json, show_tools, show_event_logging, ex>>

----------------------------------------------------------------------------
(* parse_streaming_response called on its own *)

MaxStream == 2

ParseStream(body_text) ==
    /\ Len(streams) < MaxStream
    /\ streams' = Append(streams, parse_streaming_response(body_text))
    /\ UNCHANGED <<cache_json, show_tools, show_event_logging, request_count,
                   json_cache, ex, console, passes, stdout>>

----------------------------------------------------------------------------
(* Specifications *)

\* ProxyServer.__init__
Constructed ==
    /\ request_count = 0
    /\ json_cache = <<>>
    /\ ex = <<>>
    /\ console = <<>>
    /\ passes = <<>>
    /\ stdout = <<>>
    /\ streams = <<>>

\* The server: exchanges in flight together, show_tools as the command line
\* leaves it by default.
Init ==
    /\ Constructed
    /\ cache_json \in BOOLEAN
    /\ show_tools = FALSE
    /\ show_event_logging \in BOOLEAN

Next ==
    \/ \E q \in ClientRequests : HandleRequest_Begin(q[1], q[2])
    \/ \E r \in 1..Len(ex) : \E a \in UpstreamAnswers : HandleRequest_Respond(r, a[1], a[2])
    \/ \E r \in 1..Len(ex) : HandleRequest_ForwardError(r)

Spec == Init /\ [][Next]_vars

\* The printers alone, over every document, with and without show_tools.
InitRender ==
    /\ Constructed
    /\ cache_json \in BOOLEAN
    /\ show_tools \in BOOLEAN
    /\ show_event_logging = FALSE

NextRender ==
    \/ \E doc \in RequestDocs : RenderRequest(doc)
    \/ \E doc \in ResponseDocs : RenderResponse(doc)

SpecRender == InitRender /\ [][NextRender]_vars

\* Dedup on, tools hidden.
InitStream ==
    /\ Constructed
    /\ cache_json = TRUE
    /\ show_tools = FALSE
    /\ show_event_logging = FALSE

\* The printers over bodies of every kind, with dedup on.
NextTrace ==
    \/ \E body \in TraceRequestBodies : TraceRequest(body)
    \/ \E body \in TraceResponseBodies : TraceResponse(200, body)

SpecTrace == InitStream /\ [][NextTrace]_vars

\* parse_streaming_response alone, over every stream text.
NextStream == \E body_text \in StreamTexts : ParseStream(body_text)

SpecStream == InitStream /\ [][NextStream]_vars
----------------------------------------------------------------------------
(* Properties *)

PassIds == 1..Len(passes)
CallIds == 1..Len(ex)

\* a and b are the same JSON value up to the insertion order of mapping keys
RECURSIVE SameJson(_, _)
SameJson(a, b) ==
    /\ Kind(a) = Kind(b)
    /\ CASE Kind(a) = "list" ->
              /\ Len(Payload(a)) = Len(Payload(b))
              /\ \A i \in 1..Len(Payload(a)) : SameJson(Payload(a)[i], Payload(b)[i])
         [] Kind(a) = "dict" ->
              /\ Len(Payload(a)) = Len(Payload(b))
              /\ \A i \in 1..Len(Payload(a)) :
                    /\ HasKey(Payload(b), Payload(a)[i][1])
                    /\ SameJson(Payload(a)[i][2], Get(Payload(b), Payload(a)[i][1]))
         [] OTHER -> a = b

\* C1: every exchange that upstream answered hands the client upstream's
\* status and body unchanged, whatever the body holds and whether or not the
\* exchange is printed.
C1_ForwardsUnchanged ==
    \A r \in CallIds :
        ex[r].pc = "done" =>
            /\ ex[r].status = ex[r].upStatus
            /\ ex[r].sent = ex[r].upBody

\* C1, for the exchanges whose response block was printed without an
\* exception: those are forwarded unchanged.
C1_ForwardsUnchangedWhenPrinted ==
    \A r \in CallIds :
        (ex[r].pc = "done" /\ ~\E k \in 1..Len(console) :
                                  console[k].r = r /\ console[k].kind = "ERROR") =>
            /\ ex[r].status = ex[r].upStatus
            /\ ex[r].sent = ex[r].upBody

\* C2: with dedup on, the same composite fed twice, starting from a cache
\* that does not hold it, is returned as a composite the first time and as
\* the marker with the first occurrence's preview the second time.
C2_SecondFeedIsBackReference ==
    cache_json =>
        \A i, j \in PassIds :
            (/\ i < j
             /\ passes[i].src = passes[j].src
             /\ Kind(passes[i].src) \in {"dict", "list"}
             /\ compute_hash(passes[i].src) \notin DOMAIN passes[i].before) =>
                /\ passes[i].ok
                /\ Kind(passes[i].res) = Kind(passes[i].src)
                /\ passes[j].ok
                /\ create_preview(passes[i].src).ok
                /\ passes[j].res = JStr("... (cached: " \o create_preview(passes[i].src).s \o ")")

\* C2, for the composites whose first feed returned.
C2_SecondFeedWhenFirstReturned ==
    cache_json =>
        \A i, j \in PassIds :
            (/\ i < j
             /\ passes[i].src = passes[j].src
             /\ Kind(passes[i].src) \in {"dict", "list"}
             /\ compute_hash(passes[i].src) \notin DOMAIN passes[i].before
             /\ passes[i].ok) =>
                /\ Kind(passes[i].res) = Kind(passes[i].src)
                /\ passes[j].ok
                /\ passes[j].res = JStr("... (cached: " \o create_preview(passes[i].src).s \o ")")

\* path names the value of a top-level "tools" key, or a place inside it
UnderTools(path) ==
    path = "tools" \/ IsPrefix("tools[", path) \/ IsPrefix("tools.", path)

\* C3 as stated: with show_tools off, the placeholder replaces "tools" before
\* the collapse, so no cache entry is ever created for a tools value or for
\* a substructure of one.
C3_ToolsNeverFingerprinted ==
    ~show_tools =>
        \A i \in PassIds : \A k \in 1..Len(passes[i].visits) :
            ~(passes[i].visits[k].what = "new" /\ UnderTools(passes[i].visits[k].path))

\* C3 as amended: with show_tools off, the placeholder replaces the top-level
\* "tools" key of the collapsed body, after the collapse: the printed mapping
\* is the collapsed one with the placeholder under "tools" and every other
\* key as collapsed, and, with dedup on, a composite tools value has been
\* fingerprinted at path "tools" and has its entry in the cache.
C3_ToolsHiddenAfterCollapse ==
    ~show_tools =>
        \A i \in PassIds :
            (/\ passes[i].ok
             /\ Kind(passes[i].res) = "dict"
             /\ HasKey(Payload(passes[i].res), "tools")) =>
                LET res == Payload(passes[i].res)
                    shown == Payload(passes[i].shown)
                    tools == Get(Payload(passes[i].src), "tools")
                IN /\ Kind(passes[i].shown) = "dict"
                   /\ Len(shown) = Len(res)
                   /\ \A k \in 1..Len(res) :
                         shown[k] = IF res[k][1] = "tools"
                                    THEN <<"tools", JStr(ToolsPlaceholder)>>
                                    ELSE res[k]
                   /\ (cache_json /\ Kind(tools) \in {"dict", "list"}) =>
                         /\ compute_hash(tools) \in DOMAIN passes[i].after
                         /\ \E k \in 1..Len(passes[i].visits) :
                               /\ passes[i].visits[k].path = "tools"
                               /\ passes[i].visits[k].hash = compute_hash(tools)

\* C3 witness: a body with a composite "tools" value has been collapsed and
\* printed with show_tools off and dedup on.
C3_Witness ==
    /\ ~show_tools
    /\ cache_json
    /\ \E i \in PassIds :
          /\ passes[i].ok
          /\ Kind(passes[i].res) = "dict"
          /\ HasKey(Payload(passes[i].res), "tools")
          /\ Kind(Get(Payload(passes[i].src), "tools")) = "list"
          /\ Get(Payload(passes[i].shown), "tools") = JStr(ToolsPlaceholder)

\* C4 as stated: with dedup on, a composite under a top-level allow-listed
\* key is rendered in full every time a document carrying it is processed.
C4_ExemptAlwaysInFull ==
    cache_json =>
        \A i \in PassIds :
            (passes[i].ok /\ Kind(passes[i].src) = "dict") =>
                \A k \in ExemptKeys :
                    (/\ HasKey(Payload(passes[i].src), k)
                     /\ Kind(Get(Payload(passes[i].src), k)) \in {"dict", "list"}) =>
                        /\ Kind(passes[i].shown) = "dict"
                        /\ Get(Payload(passes[i].shown), k) = Get(Payload(passes[i].src), k)

\* C4 as amended: with dedup on, whenever a document whose own fingerprint is
\* not yet cached is processed, a composite under one of its top-level
\* allow-listed keys is rendered in full, also when an equal value is
\* already cached.
C4_ExemptInFullInNewDocument ==
    cache_json =>
        \A i \in PassIds :
            (/\ passes[i].ok
             /\ Kind(passes[i].src) = "dict"
             /\ compute_hash(passes[i].src) \notin DOMAIN passes[i].before) =>
                \A k \in ExemptKeys :
                    (/\ HasKey(Payload(passes[i].src), k)
                     /\ Kind(Get(Payload(passes[i].src), k)) \in {"dict", "list"}) =>
                        /\ Kind(passes[i].shown) = "dict"
                        /\ Get(Payload(passes[i].shown), k) = Get(Payload(passes[i].src), k)

\* C4 witness: a new document was processed whose allow-listed key carries a
\* composite that an earlier body had already put in the cache.
C4_Witness ==
    /\ cache_json
    /\ \E i \in PassIds : \E k \in ExemptKeys :
          /\ passes[i].ok
          /\ Kind(passes[i].src) = "dict"
          /\ compute_hash(passes[i].src) \notin DOMAIN passes[i].before
          /\ HasKey(Payload(passes[i].src), k)
          /\ Kind(Get(Payload(passes[i].src), k)) \in {"dict", "list"}
          /\ compute_hash(Get(Payload(passes[i].src), k)) \in DOMAIN passes[i].before
          /\ Get(Payload(passes[i].shown), k) = Get(Payload(passes[i].src), k)

\* The passes a step adds to the history
NewPassIds == (Len(passes) + 1)..Len(passes')

\* C5: the cache only grows: a step never removes an entry nor changes its
\* preview, and a collapse of a value whose fingerprint is already present
\* leaves the whole cache as it was.
C5_CacheOnlyGrows ==
    [][/\ \A h \in DOMAIN json_cache :
             h \in DOMAIN json_cache' /\ json_cache'[h] = json_cache[h]
       /\ \A i \in NewPassIds :
             /\ passes'[i].before = json_cache
             /\ passes'[i].after = json_cache'
             /\ compute_hash(passes'[i].src) \in DOMAIN json_cache =>
                   json_cache' = json_cache]_vars

\* C5 witness: a composite whose fingerprint was present has been collapsed
\* into a back-reference, with other entries in the cache.
C5_Witness ==
    \E i \in PassIds :
        /\ Kind(passes[i].src) \in {"dict", "list"}
        /\ compute_hash(passes[i].src) \in DOMAIN passes[i].before
        /\ Kind(passes[i].res) = "str"
        /\ Cardinality(DOMAIN json_cache) >= 3

\* Every composite that occurs in v, v itself included, in document order
RECURSIVE Composites(_)
RECURSIVE CompositesOfAll(_)
Composites(v) ==
    IF Kind(v) = "list" THEN <<v>> \o CompositesOfAll(Payload(v))
    ELSE IF Kind(v) = "dict"
         THEN <<v>> \o CompositesOfAll([i \in 1..Len(Payload(v)) |-> Payload(v)[i][2]])
         ELSE <<>>
CompositesOfAll(vs) ==
    IF Len(vs) = 0 THEN <<>> ELSE Composites(Head(vs)) \o CompositesOfAll(Tail(vs))

\* No composite of v is in the cache, and none occurs twice in v
FreshIn(v, cache) ==
    LET subs == Composites(v)
    IN /\ \A a \in 1..Len(subs) : compute_hash(subs[a]) \notin DOMAIN cache
       /\ \A a, b \in 1..Len(subs) : a < b => ~SameJson(subs[a], subs[b])

\* C6: a document none of whose composites is already cached or occurs more
\* than once in it is returned equal to its input (same kinds, keys, order,
\* lengths and leaves); a scalar passes through unchanged.
C6_FreshDocumentUnchanged ==
    cache_json =>
        \A i \in PassIds :
            FreshIn(passes[i].src, passes[i].before) =>
                passes[i].ok /\ passes[i].res = passes[i].src

\* C6, for the passes that returned.
C6_FreshDocumentUnchangedWhenReturned ==
    cache_json =>
        \A i \in PassIds :
            (FreshIn(passes[i].src, passes[i].before) /\ passes[i].ok) =>
                passes[i].res = passes[i].src

\* C7 as stated: after a body has been collapsed with dedup on, every
\* composite that occurs anywhere in it has an entry in the cache.
C7_EveryCompositeCached ==
    cache_json =>
        \A i \in PassIds :
            passes[i].ok =>
                \A c \in 1..Len(Composites(passes[i].src)) :
                    compute_hash(Composites(passes[i].src)[c]) \in DOMAIN passes[i].after

\* v is in the cache and, unless out shows it as a back-reference, so is
\* every composite below it that is not the value of model, max_tokens or
\* stream in a mapping at the empty path.
RECURSIVE Covered(_, _, _, _)
Covered(v, out, path, cache) ==
    IF Kind(v) \notin {"dict", "list"} THEN TRUE
    ELSE /\ compute_hash(v) \in DOMAIN cache
         /\ IF Kind(out) = "str" THEN TRUE
            ELSE IF Kind(v) = "dict"
                 THEN \A k \in 1..Len(Payload(v)) :
                         \/ (path = "" /\ Payload(v)[k][1] \in ExemptKeys)
                         \/ Covered(Payload(v)[k][2], Payload(out)[k][2],
                                    KeyPath(path, Payload(v)[k][1]), cache)
                 ELSE \A k \in 1..Len(Payload(v)) :
                         Covered(Payload(v)[k], Payload(out)[k], IndexPath(path, k), cache)

\* C7 as amended: after a body has been collapsed with dedup on, every
\* composite of it that the result shows as a composite or as a
\* back-reference has an entry in the cache, created when it was first
\* encountered with the preview of that occurrence; the composites under an
\* allow-listed key of a mapping at the empty path and those inside a subtree
\* replaced by a back-reference are not fingerprinted by the pass.
C7_VisitedCompositesCached ==
    cache_json =>
        \A i \in PassIds :
            passes[i].ok =>
                /\ Covered(passes[i].src, passes[i].res, "", passes[i].after)
                /\ \A k \in 1..Len(passes[i].visits) :
                      passes[i].visits[k].what = "new" =>
                          /\ passes[i].visits[k].hash \notin DOMAIN passes[i].before
                          /\ json_cache[passes[i].visits[k].hash]
                                = create_preview(passes[i].visits[k].value).s

\* C7 witness: a body with at least three composites, one of them shown as a
\* back-reference inside it, has been collapsed.
C7_Witness ==
    /\ cache_json
    /\ \E i \in PassIds :
          /\ passes[i].ok
          /\ Len(Composites(passes[i].src)) >= 3
          /\ Kind(passes[i].res) = "dict"
          /\ \E k \in 1..Len(passes[i].visits) :
                passes[i].visits[k].what = "hit" /\ passes[i].visits[k].path # ""

\* C8: with dedup off, cache_and_replace returns every value unchanged and
\* the cache stays empty: nothing is fingerprinted, inserted or replaced.
C8_DedupOffLeavesAllUntouched ==
    ~cache_json =>
        /\ DOMAIN json_cache = {}
        /\ \A i \in PassIds :
              /\ passes[i].ok
              /\ passes[i].res = passes[i].src
              /\ passes[i].visits = <<>>
              /\ DOMAIN passes[i].after = {}

\* C8 witness: with dedup off, the same composite body has been processed
\* twice.
C8_Witness ==
    /\ ~cache_json
    /\ \E i, j \in PassIds :
          /\ i < j
          /\ passes[i].src = passes[j].src
          /\ Len(Composites(passes[i].src)) >= 2

\* Every composite fingerprinted so far, in order
RECURSIVE VisitsFrom(_)
VisitsFrom(i) ==
    IF i > Len(passes) THEN <<>> ELSE passes[i].visits \o VisitsFrom(i + 1)
AllVisits == VisitsFrom(1)

\* C9: two fingerprinted values have equal fingerprints exactly when they are
\* the same value up to the insertion order of their keys (at any depth), and
\* then the later one is collapsed as a duplicate of the first.
C9_HashOrderIndependent ==
    LET vs == AllVisits
    IN \A a, b \in 1..Len(vs) :
          /\ (vs[a].hash = vs[b].hash) <=> SameJson(vs[a].value, vs[b].value)
          /\ (a < b /\ vs[a].what = "new" /\ SameJson(vs[a].value, vs[b].value)) =>
                vs[b].what = "hit"

\* C9 witness: a mapping was collapsed as the duplicate of one that differs
\* from it only by the key order of a nested mapping.
C9_Witness ==
    LET vs == AllVisits
    IN \E a, b \in 1..Len(vs) :
          /\ a < b
          /\ vs[a].value # vs[b].value
          /\ Kind(vs[a].value) = "dict"
          /\ KeysOf(Payload(vs[a].value)) = KeysOf(Payload(vs[b].value))
          /\ SameJson(vs[a].value, vs[b].value)
          /\ vs[a].what = "new"
          /\ vs[b].what = "hit"

\* C10: under every interleaving of the in-flight exchanges no fingerprint is
\* inserted twice, every pass starts from the cache the previous pass left,
\* and a back-reference always finds the whole entry of the first occurrence.
C10_LookupInsertAtomic ==
    LET vs == AllVisits
    IN /\ \A a, b \in 1..Len(vs) :
             (a < b /\ vs[a].what = "new") => ~(vs[b].what = "new" /\ vs[b].hash = vs[a].hash)
       /\ \A b \in 1..Len(vs) :
             vs[b].what = "hit" =>
                 \E a \in 1..(b - 1) :
                     /\ vs[a].what = "new"
                     /\ vs[a].hash = vs[b].hash
                     /\ json_cache[vs[b].hash] = create_preview(vs[a].value).s
       /\ \A i \in PassIds :
             passes[i].before = IF i = 1 THEN <<>> ELSE passes[i - 1].after

\* C10 witness: two exchanges with the same body are in flight together and
\* the second was collapsed as a duplicate of the first.
C10_Witness ==
    /\ Len(ex) = 2
    /\ ex[1].pc = "forwarding"
    /\ ex[2].pc = "forwarding"
    /\ ex[1].body = ex[2].body
    /\ Len(passes) = 2
    /\ passes[1].visits # <<>>
    /\ Kind(passes[1].res) = "dict"
    /\ Kind(passes[2].res) = "str"

----------------------------------------------------------------------------
(* C11, C20: the console under concurrent exchanges *)

BlockIds == 1..Len(console)

\* The lines of block b, in the order they stand in stdout.
LinesOf(b) ==
    LET OfBlock(l) == l.b = b
    IN SelectSeq(stdout, OfBlock)

\* The places in stdout where one block's lines end and another's begin.
Boundaries == {j \in 1..(Len(stdout) - 1) : stdout[j].b # stdout[j + 1].b}

\* C11: under every interleaving of in-flight exchanges, the lines of one
\* trace block stand in stdout as one contiguous unit: every block printed is
\* there in full and in order, and stdout changes block only between one
\* block's last line and another block's first, so no line of another block
\* stands between two lines of a block.
C11_BlocksContiguous ==
    /\ \A b \in BlockIds :
          LinesOf(b) = Tagged(console[b].lines, b, console[b].r)
    /\ \A j \in 1..Len(stdout) : stdout[j].b \in BlockIds
    /\ Len(stdout) > 0 => Cardinality(Boundaries) + 1 = Len(console)

\* C11 witness: the blocks of two exchanges alternate on the console (a block
\* of another exchange stands between the request block and the response
\* block of one exchange), each of several lines.
C11_Witness ==
    \E i, j, k \in BlockIds :
        /\ i < j /\ j < k
        /\ console[i].r = console[k].r
        /\ console[j].r # console[i].r
        /\ console[i].kind = "REQUEST" /\ console[k].kind = "RESPONSE"
        /\ Len(console[j].lines) > 1
        /\ Len(stdout) = Len(console[i].lines) + Len(console[j].lines) + Len(console[k].lines)

\* C20: under every interleaving of in-flight exchanges, the number in the
\* header of a RESPONSE block equals the number in the header of the REQUEST
\* block of the same exchange.
C20_ResponseNumberIsRequestNumber ==
    \A i, j \in BlockIds :
        (/\ console[i].kind = "REQUEST"
         /\ console[j].kind = "RESPONSE"
         /\ console[i].r = console[j].r) => console[i].n = console[j].n

----------------------------------------------------------------------------
(* C12..C15: parse_streaming_response *)

StreamIds == 1..Len(streams)

\* The k-th smallest member of a set of numbers.
Kth(places, k) == CHOOSE p \in places : Cardinality({q \in places : q < p}) = k - 1

\* The lines of a text that open an event, by their place in the text.
EventLineIds(lines) == {i \in 1..Len(lines) : IsPrefix(EventPrefix, lines[i])}

\* The place of the k-th event line, and of the line that ends its record.
OpenedAt(ids, k) == Kth(ids, k)
ClosedAt(lines, ids, k) == IF k = Cardinality(ids) THEN Len(lines) + 1 ELSE Kth(ids, k + 1)

\* The data lines of the k-th record: those after its event line and before
\* the next event line or the end of the text.
DataLineIds(lines, ids, k) ==
    {i \in (OpenedAt(ids, k) + 1)..(ClosedAt(lines, ids, k) - 1) : IsPrefix(DataPrefix, lines[i])}

LastOf(ids) == CHOOSE i \in ids : \A j \in ids : j <= i

\* The payload the data lines at the places ids leave.
PayloadOf(lines, ids) ==
    IF ids = {} THEN Null
    ELSE LoadsOrRaw(Strip(Drop(lines[LastOf(ids)], Len(DataPrefix))))

\* The record the k-th event line stands for.
RecordOf(lines, ids, k) ==
    [event |-> Strip(Drop(lines[OpenedAt(ids, k)], Len(EventPrefix))),
     data  |-> PayloadOf(lines, DataLineIds(lines, ids, k))]

\* The records a text of these lines stands for.
RecordsOf(lines) ==
    LET ids == EventLineIds(lines)
    IN [k \in 1..Cardinality(ids) |-> RecordOf(lines, ids, k)]

\* C12: parse_streaming_response builds exactly one event record per
\* 'event: ' line, in input order; a record holds the name of its event line
\* and the payload of the data lines between that line and the next event
\* line or the end of input (the last of them, none: no payload), so a data
\* line before the first event line is dropped and changes no record.
C12_OneRecordPerEventLine ==
    \A s \in StreamIds :
        LET lines == StreamLines(streams[s].text)
        IN /\ Len(streams[s].events) = Cardinality(EventLineIds(lines))
           /\ streams[s].events = RecordsOf(lines)

\* C12 witness: a text was parsed whose first line is a data line, with an
\* event line after it, and the record of that event has no payload; and a
\* text was parsed in which one event has two data lines.
C12_Witness ==
    /\ \E s \in StreamIds :
          /\ IsPrefix(DataPrefix, StreamLines(streams[s].text)[1])
          /\ Len(streams[s].events) = 1
          /\ streams[s].events[1].data = Null
          /\ streams[s].ok
    /\ \E s \in StreamIds :
          /\ Len(streams[s].events) = 2
          /\ LET lines == StreamLines(streams[s].text)
             IN Cardinality(DataLineIds(lines, EventLineIds(lines), 1)) = 2

\* The first event of a name (0: none), and the first one that also carries
\* a payload python takes as true.
Named(events, name) == {i \in 1..Len(events) : events[i].event = name}
NamedWithData(events, name) == {i \in Named(events, name) : Truthy(events[i].data)}
Lowest(ids) == IF ids = {} THEN 0 ELSE CHOOSE i \in ids : \A j \in ids : i <= j

\* The lines of the summary.
OutLines(c) == Split(c.out, "\n")

MergedPrefix == "  - content_block_delta (merged): \""
MergedIn(c) == {i \in 1..Len(OutLines(c)) : IsPrefix(MergedPrefix, OutLines(c)[i])}

\* The entry made from the event at place i with the lines made(data).
EntryFrom(events, i, made(_)) == IF i = 0 THEN <<>> ELSE made(events[i].data).lines
Presence(line) == [ok |-> TRUE, lines |-> <<line>>]
StopLine(data) == Presence("  - content_block_stop")
MessageStopLine(data) == Presence("  - message_stop")

\* A summary made of the header and the entries of the events at the places
\* start, block, stop, delta and end, in the fixed order, with the merged
\* line (if any) in its place.
IsSummaryOf(c, start, block, stop, delta, end) ==
    /\ Cardinality(MergedIn(c)) <= 1
    /\ OutLines(c) =
          <<HeaderText>>
          \o EntryFrom(c.events, start, StartLines)
          \o EntryFrom(c.events, block, BlockStartLines)
          \o [i \in 1..Cardinality(MergedIn(c)) |-> OutLines(c)[LastOf(MergedIn(c))]]
          \o EntryFrom(c.events, stop, StopLine)
          \o EntryFrom(c.events, delta, MessageDeltaLines)
          \o EntryFrom(c.events, end, MessageStopLine)

\* C13 as claimed: the summary returned is the header followed by at most one
\* entry per event type, in the fixed order, each taken from the first
\* occurrence of its event type.
C13_EntriesFromFirstOccurrence ==
    \A s \in StreamIds :
        streams[s].ok =>
            IsSummaryOf(streams[s],
                        Lowest(Named(streams[s].events, "message_start")),
                        Lowest(Named(streams[s].events, "content_block_start")),
                        Lowest(Named(streams[s].events, "content_block_stop")),
                        Lowest(Named(streams[s].events, "message_delta")),
                        Lowest(Named(streams[s].events, "message_stop")))

\* C13 amended: the summary returned is the header followed by at most one
\* entry per event type, in the fixed order; the entries of
\* content_block_start, content_block_stop and message_stop are taken from
\* the first event of the type, those of message_start and message_delta from
\* the first event of the type that carries a non-empty payload (none when no
\* event of the type carries one).
C13_EntriesFromFirstWithPayload ==
    \A s \in StreamIds :
        streams[s].ok =>
            IsSummaryOf(streams[s],
                        Lowest(NamedWithData(streams[s].events, "message_start")),
                        Lowest(Named(streams[s].events, "content_block_start")),
                        Lowest(Named(streams[s].events, "content_block_stop")),
                        Lowest(NamedWithData(streams[s].events, "message_delta")),
                        Lowest(Named(streams[s].events, "message_stop")))

\* C13 witness: a summary was returned for a stream whose events are out of
\* order with several of a type, and one for a stream whose first
\* message_start carries no payload while a later one does.
C13_Witness ==
    /\ \E s \in StreamIds :
          /\ streams[s].ok
          /\ Cardinality(NamedWithData(streams[s].events, "message_start")) > 1
          /\ Cardinality(Named(streams[s].events, "message_stop")) > 1
          /\ Lowest(Named(streams[s].events, "message_stop")) 
                < Lowest(Named(streams[s].events, "message_start"))
          /\ Len(OutLines(streams[s])) > 6
    /\ \E s \in StreamIds :
          /\ streams[s].ok
          /\ Lowest(Named(streams[s].events, "message_start"))
                < Lowest(NamedWithData(streams[s].events, "message_start"))

\* The text-delta fragments of a stream: the content_block_delta events (by
\* name and by the type of their payload) whose nested delta has type
\* text_delta, in stream order.
IsFragment(event) ==
    /\ event.event = "content_block_delta"
    /\ IsDict(event.data)
    /\ IsStrEq(DictGet(event.data, "type", Null), "content_block_delta")
    /\ IsDict(DictGet(event.data, "delta", Null))
    /\ IsStrEq(DictGet(DictGet(event.data, "delta", Null), "type", Null), "text_delta")

Fragments(events) == SelectSeq(events, IsFragment)

\* The text of a fragment (empty when it has no text field).
FragmentText(event) == DictGet(DictGet(event.data, "delta", Null), "text", JStr(""))

RECURSIVE TextOf(_)
TextOf(fragments) ==
    IF Len(fragments) = 0 THEN ""
    ELSE PyStr(FragmentText(Head(fragments))) \o TextOf(Tail(fragments))

\* C14: the merged delta line is emitted if and only if at least one
\* text-delta fragment was observed, and its text is the concatenation, in
\* stream order, of the text of every fragment.
C14_MergedIsConcatenation ==
    \A s \in StreamIds :
        IF Fragments(streams[s].events) = <<>>
        THEN streams[s].ok => MergedIn(streams[s]) = {}
        ELSE /\ streams[s].ok
             /\ \E i \in MergedIn(streams[s]) :
                   OutLines(streams[s])[i]
                      = MergedPrefix \o TextOf(Fragments(streams[s].events)) \o "\""

\* The same, for the calls that returned.
C14_MergedIsConcatenationWhenReturned ==
    \A s \in StreamIds :
        streams[s].ok =>
            IF Fragments(streams[s].events) = <<>>
            THEN MergedIn(streams[s]) = {}
            ELSE \E i \in MergedIn(streams[s]) :
                    OutLines(streams[s])[i]
                       = MergedPrefix \o TextOf(Fragments(streams[s].events)) \o "\""

\* C15: parse_streaming_response returns a summary and never raises, for
\* every input text.
C15_NeverRaises == \A s \in StreamIds : streams[s].ok

----------------------------------------------------------------------------
(* Bodies that are not JSON *)

\* The blocks printed for a body that decodes but is not JSON, and for a
\* body that does not decode.
TextBlocks == {b \in BlockIds : console[b].body[1] = "text"}
BinaryBlocks == {b \in BlockIds : console[b].body[1] = "binary"}

\* The body of block b was handed to parse_streaming_response.
CondensedBlock(b) == console[b].kind = "RESPONSE" /\ IsStream(console[b].body)

\* Block b printed what as its body, after the size line and before the
\* closing blank line, returned, and left the cache as it found it.
PrintedUntouched(b, what) ==
    /\ console[b].ok
    /\ console[b].after = console[b].before
    /\ console[b].out = what
    /\ Len(console[b].lines) = 7
    /\ console[b].lines[5] = BodySizeLine
    /\ console[b].lines[6] = <<"body", what[2]>>
    /\ console[b].lines[7] = BlankLine

BinaryPlaceholder(b) ==
    <<"binary", "  [Binary data: " \o ToString(console[b].body[2]) \o " bytes]">>

\* C16 as stated: every body that is not valid JSON is printed as its decoded
\* text and every body that does not decode as the byte-count placeholder, by
\* print_request and by print_response, without an error and with the cache
\* unchanged.
C16_NonJsonPrintedRaw ==
    /\ \A b \in TextBlocks : PrintedUntouched(b, <<"text", console[b].body[2]>>)
    /\ \A b \in BinaryBlocks : PrintedUntouched(b, BinaryPlaceholder(b))

\* C16 amended: the same, for every body except a response body whose text,
\* stripped, starts with 'event: '.
C16_NonJsonPrintedRawUnlessStream ==
    /\ \A b \in TextBlocks \ {c \in BlockIds : CondensedBlock(c)} :
          PrintedUntouched(b, <<"text", console[b].body[2]>>)
    /\ \A b \in BinaryBlocks : PrintedUntouched(b, BinaryPlaceholder(b))

\* A collapse pass has filled the cache, and then a request whose body is
\* not JSON (and starts with 'event: ') was printed as it is.
C16_Witness ==
    /\ Len(console) = 2
    /\ console[1].after # <<>>
    /\ console[2].kind = "REQUEST"
    /\ console[2].body = TextBody(StreamHello)
    /\ console[2].out = <<"text", StreamHello>>
    /\ console[2].after = console[1].after

----------------------------------------------------------------------------
(* Previews *)

\* The previews the cache holds.
Previews == {json_cache[h] : h \in DOMAIN json_cache}

SingleLine(s) == ~Contains(s, "\n")

\* The longest text create_preview's own truncation lets through: a string
\* cut to max_length, with its quotes and the ellipsis.
PreviewLimit == DefaultMaxLength + Len("'...'")

\* C17: every preview in the cache is one line, and no longer than the limit
\* the truncation sets, whatever the size of the value it summarizes.
C17_PreviewsSingleLineBounded ==
    \A p \in Previews : SingleLine(p) /\ Len(p) <= PreviewLimit

----------------------------------------------------------------------------
(* The order of create_preview's recognizers *)

\* The recognizers in the order claimed, as tests on the value alone, and the
\* words each one's summary opens with.
BothKeys(v, a, b) == IsDict(v) /\ HasKey(Payload(v), a) /\ HasKey(Payload(v), b)

Recognizes(k, v) ==
    CASE k = 1 -> BothKeys(v, "type", "text")
      [] k = 2 -> BothKeys(v, "role", "content")
      [] k = 3 -> BothKeys(v, "name", "description")
      [] k = 4 -> IsDict(v)
      [] k = 5 -> IsList(v)

Opening == <<"dict with text: '", "message ", "tool: ", "dict with keys: ", "array with ">>

Recognizers == 1..Len(Opening)

Matching(v) == {k \in Recognizers : Recognizes(k, v)}

Earliest(v) == CHOOSE k \in Matching(v) : \A j \in Matching(v) : k <= j

\* The summary of the generic recognizer: the first 3 keys, an ellipsis if
\* there are more.
KeysSummary(v) ==
    Opening[4] \o Join(", ", Take(KeysOf(Payload(v)), 3))
    \o (IF Len(Payload(v)) > 3 THEN "..." ELSE "")

\* The visits at which create_preview was called: the value was not in the
\* cache.
PreviewedVisits == {a \in 1..Len(AllVisits) : AllVisits[a].what # "hit"}

\* C18: the summary create_preview gives a value is the one of the earliest
\* recognizer, in the order type+text, role+content, name+description,
\* generic mapping, sequence, that matches the value; when it raises, it is
\* in the type+text recognizer, and that is the earliest match.
C18_EarliestRecognizerWins ==
    \A a \in PreviewedVisits :
        LET v == AllVisits[a].value
            k == Earliest(v)
        IN IF AllVisits[a].what = "raise" THEN k = 1
           ELSE /\ IsPrefix(Opening[k], json_cache[AllVisits[a].hash])
                /\ k = 4 => json_cache[AllVisits[a].hash] = KeysSummary(v)

\* Some value that at least n recognizers match was summarized, by
\* recognizer k.
SummarizedBy(k, n) ==
    \E a \in PreviewedVisits :
        /\ AllVisits[a].what = "new"
        /\ Earliest(AllVisits[a].value) = k
        /\ Cardinality(Matching(AllVisits[a].value)) >= n

\* A value matched by type+text, role+content and the generic recognizer,
\* and one matched by role+content, name+description and the generic one,
\* have been summarized.
C18_Witness == SummarizedBy(1, 3) /\ SummarizedBy(2, 3)

----------------------------------------------------------------------------
(* The text-field flag of format_json *)

\* The strings in v, each with the flag the claim gives it: under a key, TRUE
\* exactly for the keys "text" and "content"; in a sequence, the flag of the
\* sequence.
RECURSIVE StrLeaves(_, _)
StrLeaves(v, flag) ==
    CASE IsStr(v)  -> {<<Payload(v), flag>>}
      [] IsList(v) -> UNION {StrLeaves(Payload(v)[i], flag) : i \in 1..Len(Payload(v))}
      [] IsDict(v) -> UNION {StrLeaves(Payload(v)[i][2], Payload(v)[i][1] \in {"text", "content"}) :
                                i \in 1..Len(Payload(v))}
      [] OTHER     -> {}

\* sub in text
HasSub(text, sub) ==
    \E i \in 1..(Len(text) - Len(sub) + 1) : SubSeq(text, i, i + Len(sub) - 1) = sub

\* s is in text as a JSON string literal, its line breaks escaped.
AsLiteral(text, s) == HasSub(text, "\"" \o JsonEscape(s) \o "\"")

\* s is in text line by line: the lines of s one below the other, each
\* behind the same blanks, a real line break after each.
Blanks == {IndentStr(n) : n \in 0..4}

ByLines(text, s) ==
    \E pad \in Blanks :
        HasSub(text, Join("\n", [i \in 1..Len(Split(s, "\n")) |-> pad \o Split(s, "\n")[i]])
                     \o "\n")

\* The blocks whose body was printed by format_json, the document printed and
\* the text that came out.
JsonBlocks == {b \in BlockIds : console[b].out[1] = "json"}
ShownDoc(b) == console[b].out[2]
ShownText(b) == console[b].lines[6][2]

\* C19: in the text format_json gives for a document printed at the top
\* level (flag off), a string is rendered line by line, and not as a literal
\* with an escaped \n, exactly when it contains a line break and its flag is
\* on, the flag being that of its immediate key ("text" or "content") or, for
\* an element of a sequence, that of the sequence, never that of an enclosing
\* mapping; every other string is rendered as a literal.
C19_LineByLineIffFlagAndBreak ==
    \A b \in JsonBlocks :
        LET text == ShownText(b)
        IN \A leaf \in StrLeaves(ShownDoc(b), FALSE) :
              IF ~Contains(leaf[1], "\n") THEN AsLiteral(text, leaf[1])
              ELSE IF leaf[2] THEN ByLines(text, leaf[1]) /\ ~AsLiteral(text, leaf[1])
              ELSE AsLiteral(text, leaf[1]) /\ ~ByLines(text, leaf[1])

\* Printed: a string with a line break under "note" inside the mapping under
\* "text" (flag off below a flagged key), and strings with line breaks in the
\* sequence under "content", directly and inside a nested sequence and a
\* nested mapping.
C19_Witness ==
    /\ \E b \in JsonBlocks : /\ ShownDoc(b) = DocNoteUnderText
                             /\ <<"n1\nn2", FALSE>> \in StrLeaves(ShownDoc(b), FALSE)
    /\ \E b \in JsonBlocks : /\ ShownDoc(b) = DocContentList
                             /\ {<<"c1\nc2", TRUE>>, <<"d1\nd2", TRUE>>, <<"k1\nk2", FALSE>>,
                                 <<"o1\no2", FALSE>>} \subseteq StrLeaves(ShownDoc(b), FALSE)

----------------------------------------------------------------------------
(* create_preview is total *)

\* The blocks printed for a body that is a JSON text.
JsonBodyBlocks == {b \in BlockIds : console[b].body[1] = "json"}

\* C21: create_preview returns a summary for every value handed to it (no
\* visit of a collapse pass ends in an exception), so the printer given a
\* valid JSON body returns, with the body and the closing line printed.
C21_PreviewTotal ==
    /\ \A a \in PreviewedVisits : AllVisits[a].what = "new"
    /\ \A i \in PassIds : passes[i].ok
    /\ \A b \in JsonBodyBlocks : console[b].ok /\ console[b].out[1] = "json"
====
